---- MODULE Spec2Model ----
(***************************************************************************)
(* Model of the recipe API of django-recipe-app-api: the owned-entity      *)
(* store (Recipe, Tag, Ingredient rows and the two many-to-many tables)    *)
(* and the request handlers that change it.  RecipeSerializer.create and   *)
(* RecipeSerializer.update (app/recipe/serializers.py) are translated      *)
(* statement by statement; each request is served to completion before     *)
(* the next one starts, and the database is in autocommit mode, so what a  *)
(* handler wrote before an exception stays written.  The specification     *)
(* Spec is the recipe API used by the registered users; the specification  *)
(* UserSpec is the user manager (app/core/models.py) creating users; the   *)
(* specification RaceSpec is the recipe API served by two workers, whose   *)
(* requests interleave at the statements that the database executes.       *)
(***************************************************************************)
EXTENDS Integers, Sequences, FiniteSets, TLC

VARIABLES
    recipes,             \* rows of core.Recipe
    tags,                \* rows of core.Tag
    ingredients,         \* rows of core.Ingredient
    recipe_tags,         \* rows of the Recipe.tags through table: <<recipe id, tag id>>
    recipe_ingredients,  \* rows of the Recipe.ingredients through table
    recipe_next,         \* next primary key of core.Recipe
    tag_next,            \* next primary key of core.Tag
    ingredient_next,     \* next primary key of core.Ingredient
    users,               \* rows of core.User
    user_next,           \* next primary key of core.User
    served,              \* number of requests served so far
    last,                \* the exchange in progress: the request, the database
                         \* as the request found it, and the HTTP status
    requests             \* the request that each worker is handling, statement
                         \* by statement, when two workers serve the API

vars == <<recipes, tags, ingredients, recipe_tags, recipe_ingredients,
          recipe_next, tag_next, ingredient_next, users, user_next, served, last,
          requests>>

(***************************************************************************)
(* Bounds of the model.                                                    *)
(***************************************************************************)
MaxRecipes == 2       \* primary keys of Recipe handed out
MaxTags == 2          \* primary keys of Tag handed out
MaxIngredients == 2   \* primary keys of Ingredient handed out
MaxLen == 2           \* descriptors in one request body, tags and ingredients together
MaxRequests == 3      \* requests other than listings served in one behaviour
MaxUsers == 2         \* primary keys of User handed out by the user manager
MaxEmailLen == 3      \* characters of an email address given to the user manager

Users == {"u1", "u2"}
Names == {"a", "b"}

(***************************************************************************)
(* Request bodies.  A body is a function from the keys it carries to their *)
(* values; a key that is not in its domain is absent from the request.     *)
(***************************************************************************)
EmptyBody == <<>>

Descriptors == {[name |-> n] : n \in Names}

DescriptorLists == UNION {[1..k -> Descriptors] : k \in 0..MaxLen}

FullScalars ==
    [title |-> "t1", time_minutes |-> 1, price |-> 1,
     link |-> "l1", description |-> "d1"]

\* A body that sets the title only and names a user as the owner.
TitleAndUser(u) == [title |-> "t2", user |-> u]

\* A body that sets every scalar field and names a user as the owner.
FullAndUser(u) == FullScalars @@ [user |-> u]

ScalarParts ==
    {EmptyBody, FullScalars}
        \cup {TitleAndUser(u) : u \in Users} \cup {FullAndUser(u) : u \in Users}

TagParts == {EmptyBody} \cup {[tags |-> d] : d \in DescriptorLists}

IngredientParts == {EmptyBody} \cup {[ingredients |-> d] : d \in DescriptorLists}

Size(part) == IF part = EmptyBody THEN 0 ELSE Len(part[CHOOSE k \in DOMAIN part : TRUE])

\* The bodies of the model: any scalar part with any tags and ingredients
\* parts that carry at most MaxLen descriptors together.
Bodies ==
    {s @@ p[1] @@ p[2] :
        s \in ScalarParts,
        p \in {q \in TagParts \X IngredientParts : Size(q[1]) + Size(q[2]) <= MaxLen}}

\* A descriptor without the name key (it carries the read-only id only), and
\* the bodies of the model with such a descriptor in a list, alone or after
\* a descriptor that has a name.
NamelessDescriptor == [id |-> 1]

MalformedLists ==
    {<<NamelessDescriptor>>, <<[name |-> "a"], NamelessDescriptor>>}

MalformedParts ==
    {[tags |-> l] : l \in MalformedLists}
        \cup {[ingredients |-> l] : l \in MalformedLists}
        \cup {[tags |-> <<[name |-> "a"]>>, ingredients |-> <<NamelessDescriptor>>]}

MalformedBodies == {s @@ p : s \in {EmptyBody, FullScalars}, p \in MalformedParts}

\* A file that a multipart body uploads as the image of the recipe: the
\* name of the file is its stem followed by its suffix.
UploadedFile == [stem |-> "f", suffix |-> ".jpg"]

ImageBodies == {s @@ [image |-> UploadedFile] : s \in {EmptyBody, FullScalars}}

RequestBodies == Bodies \cup MalformedBodies \cup ImageBodies

(***************************************************************************)
(* Serializer declarations.                                                *)
(***************************************************************************)
RecipeModelFields ==
    {"id", "user", "title", "description", "time_minutes", "price", "link",
     "tags", "ingredients", "image"}

RecipeSerializer_exclude == {"user", "description"}

exclude_nothing == {}

RecipeDetailSerializer_exclude == {"user"}

read_only_fields == {"id"}

\* Fields a body may set through RecipeDetailSerializer, the serializer of
\* the create, update and partial-update requests.
WritableFields == (RecipeModelFields \ RecipeDetailSerializer_exclude) \ read_only_fields

\* Model fields that a full (non-partial) body must carry: those without
\* blank=True, null=True or a default.
RequiredFields == {"title", "time_minutes", "price"}

Restrict(f, S) == [k \in (DOMAIN f) \cap S |-> f[k]]

\* TagSerializer / IngredientSerializer: fields id and name, id read-only,
\* name required (the model field has no blank=True and no default).
DescriptorFields == {"id", "name"}

WritableDescriptorFields == DescriptorFields \ read_only_fields

ValidDescriptors(data, key) ==
    key \in DOMAIN data =>
        \A i \in 1..Len(data[key]) : WritableDescriptorFields \subseteq DOMAIN data[key][i]

\* serializer.is_valid(): a non-partial body is rejected when it lacks a
\* required field or when one of its descriptors lacks its name; keys that
\* are no writable field of the serializer are dropped.  The nested
\* serializers are declared without a partial flag of their own, and a
\* field that is absent is skipped, not required, whenever the serializer at
\* the root of the request is partial: so in a PATCH the name of a
\* descriptor is not required either.
IsValid(data, partial) ==
    \/ partial
    \/ /\ RequiredFields \subseteq DOMAIN data
       /\ ValidDescriptors(data, "tags")
       /\ ValidDescriptors(data, "ingredients")

ValidatedData(data) ==
    [k \in (DOMAIN data) \cap WritableFields |->
        IF k \in {"tags", "ingredients"}
        THEN [i \in 1..Len(data[k]) |-> Restrict(data[k][i], WritableDescriptorFields)]
        ELSE data[k]]

\* validated_data.pop(key, default).  None is Python's None; Value(v) is
\* any other value.
None == [is_none |-> TRUE, value |-> <<>>]

Value(v) == [is_none |-> FALSE, value |-> v]

pop_default_empty(validated_data, key, default) ==
    IF key \in DOMAIN validated_data THEN Value(validated_data[key]) ELSE Value(<<>>)

pop(validated_data, key, default) ==
    IF key \in DOMAIN validated_data THEN Value(validated_data[key]) ELSE default

\* What is left of validated_data after the two pops.
Popped(validated_data) ==
    Restrict(validated_data, (DOMAIN validated_data) \ {"tags", "ingredients"})

(***************************************************************************)
(* Tag.objects.get_or_create(user=auth_user, name=...) on one table.       *)
(* db carries rows and next; the result adds the outcome: obj is the id of *)
(* the row found or created, raised tells that get() found several rows    *)
(* (MultipleObjectsReturned, which get_or_create does not catch).          *)
(***************************************************************************)
Matching_any_user(rows, user, name) == {t \in rows : t.name = name}

Matching(rows, user, name) == {t \in rows : t.user = user /\ t.name = name}

get_or_create_always_creates(db, user, name) ==
    [rows |-> db.rows \cup {[id |-> db.next, user |-> user, name |-> name]},
     next |-> db.next + 1, obj |-> db.next, raised |-> FALSE]

get_or_create(db, user, name) ==
    LET found == Matching(db.rows, user, name) IN
    IF Cardinality(found) = 1
    THEN [rows |-> db.rows, next |-> db.next,
          obj |-> (CHOOSE t \in found : TRUE).id, raised |-> FALSE]
    ELSE IF found = {}
    THEN [rows |-> db.rows \cup {[id |-> db.next, user |-> user, name |-> name]},
          next |-> db.next + 1, obj |-> db.next, raised |-> FALSE]
    ELSE [rows |-> db.rows, next |-> db.next, obj |-> 0, raised |-> TRUE]

\* get_or_create(user=auth_user, **tag): the lookup and the new row use the
\* keys that the descriptor carries; a new row without a name gets the
\* field's empty default.
get_or_create_kwargs(db, user, tag) ==
    IF "name" \in DOMAIN tag
    THEN get_or_create(db, user, tag.name)
    ELSE LET found == {t \in db.rows : t.user = user} IN
         IF Cardinality(found) = 1
         THEN [rows |-> db.rows, next |-> db.next,
               obj |-> (CHOOSE t \in found : TRUE).id, raised |-> FALSE]
         ELSE IF found = {}
         THEN [rows |-> db.rows \cup {[id |-> db.next, user |-> user, name |-> ""]},
               next |-> db.next + 1, obj |-> db.next, raised |-> FALSE]
         ELSE [rows |-> db.rows, next |-> db.next, obj |-> 0, raised |-> TRUE]

kwargs_name(tag) == IF "name" \in DOMAIN tag THEN tag.name ELSE ""

\* The loop of _get_or_create_tags / _get_or_create_ingredients over the
\* descriptors from index i on.  st is [rows, next, links, calls, raised]:
\* links is the through table, calls the get_or_create calls that returned.
\* An exception ends the loop and keeps what was written before it.
RECURSIVE get_or_create_loop(_, _, _, _, _)
get_or_create_loop(st, auth_user, descs, i, recipe_id) ==
    IF i > Len(descs) THEN st
    ELSE LET r == get_or_create_kwargs(st, auth_user, descs[i]) IN
         IF r.raised
         THEN [st EXCEPT !.raised = TRUE]
         ELSE get_or_create_loop(
                  [rows |-> r.rows, next |-> r.next,
                   links |-> st.links \cup {<<recipe_id, r.obj>>},
                   calls |-> st.calls \cup
                       {[user |-> auth_user, name |-> kwargs_name(descs[i]), obj |-> r.obj]},
                   raised |-> FALSE],
                  auth_user, descs, i + 1, recipe_id)

get_or_create_tags(st, auth_user, descs, recipe_id) ==
    get_or_create_loop(st, auth_user, descs, 1, recipe_id)

get_or_create_ingredients(st, auth_user, descs, recipe_id) ==
    get_or_create_loop(st, auth_user, descs, 1, recipe_id)

\* The ids of the entities that the through table associates with a recipe.
Linked(links, id) == {l[2] : l \in {x \in links : x[1] = id}}

\* recipe.tags.clear() / recipe.ingredients.clear()
clear_nothing(links, recipe_id) == links

clear_all(links, recipe_id) == {}

clear(links, recipe_id) == {l \in links : l[1] # recipe_id}

TagState ==
    [rows |-> tags, next |-> tag_next, links |-> recipe_tags,
     calls |-> {}, raised |-> FALSE]

IngredientState ==
    [rows |-> ingredients, next |-> ingredient_next,
     links |-> recipe_ingredients, calls |-> {}, raised |-> FALSE]

\* recipe_image_file_path(instance, filename): the path under which an
\* uploaded image is stored keeps the suffix of the file's name and nothing
\* else of it; "uuid" stands for the random uuid4 that names the file.
recipe_image_file_path(instance, filename) ==
    [dir |-> "uploads/recipe", stem |-> "uuid", suffix |-> filename.suffix]

\* Saving a Recipe row whose image is a file just uploaded stores the file
\* under the path of upload_to and the path in the row.
pre_save(row) ==
    IF row.image = UploadedFile
    THEN [row EXCEPT !.image = Value(recipe_image_file_path(row, row.image))]
    ELSE row

\* for attr, value in validated_data.items(): setattr(instance, attr, value)
setattrs(instance, validated_data) ==
    [k \in DOMAIN instance |->
        IF k \in DOMAIN validated_data THEN validated_data[k] ELSE instance[k]]

(***************************************************************************)
(* RecipeSerializer.update(instance, validated_data).  The result is the   *)
(* state of the tables after the call and whether it raised: t is the Tag  *)
(* side, g the Ingredient side.  instance.save() is not reached when one   *)
(* of the loops raises.                                                    *)
(***************************************************************************)
update(instance, validated_data, auth_user) ==
    LET tags_arg == pop(validated_data, "tags", None)
        ingredients_arg == pop(validated_data, "ingredients", None)
        t == IF ~tags_arg.is_none
             THEN get_or_create_tags(
                      [TagState EXCEPT !.links = clear(recipe_tags, instance.id)],
                      auth_user, tags_arg.value, instance.id)
             ELSE TagState
        g == IF t.raised THEN IngredientState
             ELSE IF ~ingredients_arg.is_none
             THEN get_or_create_ingredients(
                      [IngredientState EXCEPT
                           !.links = clear(recipe_ingredients, instance.id)],
                      auth_user, ingredients_arg.value, instance.id)
             ELSE IngredientState
        raised == t.raised \/ g.raised
    IN [t |-> t, g |-> g, raised |-> raised,
        recipes |-> IF raised THEN recipes
                    ELSE (recipes \ {instance})
                             \cup {pre_save(setattrs(instance, Popped(validated_data)))}]

(***************************************************************************)
(* RecipeSerializer.create(validated_data); validated_data carries the     *)
(* user that the view passed to serializer.save().  The Recipe row is      *)
(* inserted before the loops run and stays when one of them raises.        *)
(***************************************************************************)
RecipeDefaults == [description |-> "", link |-> "", image |-> None]

create(validated_data, auth_user) ==
    LET tags_arg == pop(validated_data, "tags", Value(<<>>))
        ingredients_arg == pop(validated_data, "ingredients", Value(<<>>))
        recipe == pre_save([id |-> recipe_next] @@ Popped(validated_data)
                               @@ RecipeDefaults)
        t == get_or_create_tags(TagState, auth_user, tags_arg.value, recipe.id)
        g == IF t.raised THEN IngredientState
             ELSE get_or_create_ingredients(
                      IngredientState, auth_user, ingredients_arg.value, recipe.id)
    IN [t |-> t, g |-> g, raised |-> t.raised \/ g.raised,
        recipes |-> recipes \cup {recipe}]

(***************************************************************************)
(* The user manager (core/models.py).  An email address is a sequence of   *)
(* character codes; the model's alphabet is the space, "@", "A" and "a".   *)
(***************************************************************************)
EmailChars == {32, 64, 65, 97}

Emails == UNION {[1..k -> EmailChars] : k \in 0..MaxEmailLen}

\* The email argument of a call: None, or a string (the empty one included).
EmailArgs == {None} \cup {Value(e) : e \in Emails}

\* str.lower() on one character
lower_identity(c) == c

lower(c) == IF c \in 65..90 THEN c + 32 ELSE c

\* The index of the last "@" of the string, 0 when it has none:
\* where email.rsplit("@", 1) splits.
rsplit_at(e) ==
    LET ats == {i \in 1..Len(e) : e[i] = 64} IN
    IF ats = {} THEN 0 ELSE CHOOSE i \in ats : \A j \in ats : j <= i

\* str.strip(): without the whitespace at both ends
strip(e) ==
    LET inked == {i \in 1..Len(e) : e[i] # 32} IN
    IF inked = {} THEN <<>>
    ELSE SubSeq(e, CHOOSE i \in inked : \A j \in inked : i <= j,
                   CHOOSE i \in inked : \A j \in inked : j <= i)

\* BaseUserManager.normalize_email(email): strips the string and lowercases
\* the part after its last "@"; a string without "@" is left as it is.
normalize_email(email) ==
    LET e == IF email.is_none THEN <<>> ELSE email.value
        stripped == strip(e)
        i == rsplit_at(stripped)
    IN IF i = 0 THEN e
       ELSE SubSeq(stripped, 1, i)
                \o [k \in 1..(Len(stripped) - i) |-> lower(stripped[i + k])]

\* `not email`: None and the empty string are falsy.
not_email_none_only(email) == email.is_none

not_email(email) == email.is_none \/ email.value = <<>>

\* The primary key of the n-th User row.
UserKey(n) == "u" \o ToString(n)

UserIds == {x.id : x \in users}

UserStore == [rows |-> users, next |-> user_next, obj |-> "", raised |-> ""]

\* user.save() of a new row: the unique index on email rejects a row whose
\* email is stored already (IntegrityError).
save_new_unchecked(db, user) ==
    [rows |-> db.rows \cup {user}, next |-> db.next + 1,
     obj |-> user.id, raised |-> ""]

save_new(db, user) ==
    IF \E x \in db.rows : x.email = user.email
    THEN [db EXCEPT !.raised = "IntegrityError"]
    ELSE [rows |-> db.rows \cup {user}, next |-> db.next + 1,
          obj |-> user.id, raised |-> ""]

\* UserManager.create_user(email, password)
create_user(db, email) ==
    IF not_email(email)
    THEN [db EXCEPT !.raised = "ValueError"]
    ELSE save_new(db, [id |-> UserKey(db.next), email |-> normalize_email(email),
                       is_staff |-> FALSE, is_superuser |-> FALSE])

\* UserManager.create_superuser(email, password) calls create_user, which
\* saves the user as a plain user; then it sets the two flags on the object
\* it holds and saves the object again.  Nothing makes the two saves one
\* transaction.
\* user.is_staff = True; user.is_superuser = True
as_superuser(user) == [user EXCEPT !.is_staff = TRUE, !.is_superuser = TRUE]

\* user.save() of an object that was saved before: the row of its primary
\* key is updated; were the row gone, the object would be inserted again,
\* which the unique index on email can reject.
save(db, user) ==
    IF \E x \in db.rows : x.id = user.id
    THEN [db EXCEPT !.rows = {x \in db.rows : x.id # user.id} \cup {user},
                    !.obj = user.id]
    ELSE IF \E x \in db.rows : x.email = user.email
    THEN [db EXCEPT !.raised = "IntegrityError"]
    ELSE [db EXCEPT !.rows = db.rows \cup {user}, !.obj = user.id]

\* user.delete(): the rows whose user foreign key is on_delete=CASCADE go
\* with the user, and with them the through rows of the deleted recipes,
\* tags and ingredients.  db is a Snapshot with the users added.
delete_user_only(db, id) ==
    [db EXCEPT !.users = {x \in db.users : x.id # id}]

delete_user(db, id) ==
    LET rs == {r \in db.recipes : r.user # id}
        ts == {t \in db.tags : t.user # id}
        gs == {g \in db.ingredients : g.user # id}
    IN [users |-> {x \in db.users : x.id # id},
        recipes |-> rs, tags |-> ts, ingredients |-> gs,
        recipe_tags |->
            {l \in db.recipe_tags :
                 l[1] \in {r.id : r \in rs} /\ l[2] \in {t.id : t \in ts}},
        recipe_ingredients |->
            {l \in db.recipe_ingredients :
                 l[1] \in {r.id : r \in rs} /\ l[2] \in {g.id : g \in gs}}]

(***************************************************************************)
(* The views.                                                              *)
(***************************************************************************)
\* RecipeViewSet.get_queryset(): the recipes of the authenticated user.
get_queryset_all(auth_user) == recipes

get_queryset(auth_user) == {r \in recipes : r.user = auth_user}

\* TagViewSet / IngredientViewSet .get_queryset(): the rows of the
\* authenticated user; with assigned_only, those joined to a recipe, each
\* once.  A queryset is a bag: the number of times it yields each row.
owned_by_anyone(rows, auth_user) == rows

owned_by(rows, auth_user) == {t \in rows : t.user = auth_user}

\* filter(recipe__isnull=False): the join with the through table yields a
\* row once for every recipe it is associated with.
recipe_isnull_false(rows, links) == {j \in rows \X links : j[2][2] = j[1].id}

\* distinct()
not_distinct(joined) ==
    [t \in {j[1] : j \in joined} |-> Cardinality({j \in joined : j[1] = t})]

distinct(joined) == [t \in {j[1] : j \in joined} |-> 1]

Once(rows) == [t \in rows |-> 1]

attr_queryset(rows, links, auth_user, assigned_only) ==
    IF assigned_only
    THEN distinct(recipe_isnull_false(owned_by(rows, auth_user), links))
    ELSE Once(owned_by(rows, auth_user))

WithinBounds(t, g) == t.next <= MaxTags + 1 /\ g.next <= MaxIngredients + 1

Commit(res) ==
    /\ recipes' = res.recipes
    /\ tags' = res.t.rows
    /\ tag_next' = res.t.next
    /\ recipe_tags' = res.t.links
    /\ ingredients' = res.g.rows
    /\ ingredient_next' = res.g.next
    /\ recipe_ingredients' = res.g.links

Tables == <<recipes, tags, ingredients, recipe_tags, recipe_ingredients,
            tag_next, ingredient_next>>

UserTables == <<users, user_next>>

\* The database as the request found it.
Snapshot ==
    [recipes |-> recipes, tags |-> tags, ingredients |-> ingredients,
     recipe_tags |-> recipe_tags, recipe_ingredients |-> recipe_ingredients]

NoSnapshot ==
    [recipes |-> {}, tags |-> {}, ingredients |-> {},
     recipe_tags |-> {}, recipe_ingredients |-> {}]

\* calls: the get_or_create calls of the request that returned.
Exchange(op, auth_user, id, partial, data, status, repeated, calls) ==
    [op |-> op, user |-> auth_user, id |-> id, partial |-> partial,
     data |-> data, status |-> status, repeated |-> repeated,
     tag_calls |-> calls[1], ingredient_calls |-> calls[2], pre |-> Snapshot]

NoCalls == <<{}, {}>>

NoExchange ==
    [op |-> "none", user |-> "u1", id |-> 0, partial |-> FALSE,
     data |-> EmptyBody, status |-> 0, repeated |-> FALSE,
     tag_calls |-> {}, ingredient_calls |-> {}, pre |-> NoSnapshot]

\* The workers that serve requests at the same time, and the request of a
\* worker: pc is the statement it executes next, instance the Recipe row the
\* handler holds, i the index of the descriptor in turn, obj the Tag that
\* get_or_create returns for it, pre the Tag rows as the request found them,
\* overlapped whether another request was in progress during this one.
Workers == {"w1", "w2"}

NoInstance == [id |-> 0]

NoRequest ==
    [pc |-> "idle", op |-> "none", user |-> "u1", id |-> 0, data |-> EmptyBody,
     instance |-> NoInstance, i |-> 0, obj |-> 0, status |-> 0, pre |-> {},
     overlapped |-> FALSE]

\* Requests are served one at a time: a request is taken when the exchange
\* before it is over, and at most MaxRequests requests are served.
Idle == last = NoExchange /\ served < MaxRequests

\* POST /api/recipe/recipes/
CreateRecipe(auth_user, data) ==
    /\ recipe_next <= MaxRecipes
    /\ served' = served + 1
    /\ IF ~IsValid(data, FALSE)
       THEN /\ UNCHANGED <<Tables, recipe_next>>
            /\ last' = Exchange("create", auth_user, 0, FALSE, data, 400, FALSE, NoCalls)
       ELSE LET res == create([user |-> auth_user] @@ ValidatedData(data), auth_user) IN
            /\ WithinBounds(res.t, res.g)
            /\ Commit(res)
            /\ recipe_next' = recipe_next + 1
            /\ last' = Exchange("create", auth_user, recipe_next, FALSE, data,
                                IF res.raised THEN 500 ELSE 201, FALSE,
                                <<res.t.calls, res.g.calls>>)

\* PUT (partial = FALSE) and PATCH (partial = TRUE) /api/recipe/recipes/<id>/
perform_update(auth_user, id, partial, data, repeated) ==
    LET found == {r \in get_queryset(auth_user) : r.id = id} IN
    /\ UNCHANGED recipe_next
    /\ served' = served + 1
    /\ IF found = {}
       THEN /\ UNCHANGED Tables
            /\ last' = Exchange("update", auth_user, id, partial, data, 404, repeated, NoCalls)
       ELSE IF ~IsValid(data, partial)
       THEN /\ UNCHANGED Tables
            /\ last' = Exchange("update", auth_user, id, partial, data, 400, repeated, NoCalls)
       ELSE LET instance == CHOOSE r \in found : TRUE
                res == update(instance, ValidatedData(data), auth_user) IN
            /\ WithinBounds(res.t, res.g)
            /\ Commit(res)
            /\ last' = Exchange("update", auth_user, id, partial, data,
                                IF res.raised THEN 500 ELSE 200, repeated,
                                <<res.t.calls, res.g.calls>>)

UpdateRecipe(auth_user, id, partial, data) ==
    perform_update(auth_user, id, partial, data, FALSE)

\* The client sends the update it has just sent once more.
RepeatUpdate ==
    /\ last.op = "update"
    /\ ~last.repeated
    /\ served < MaxRequests
    /\ UNCHANGED <<UserTables, requests>>
    /\ perform_update(last.user, last.id, last.partial, last.data, TRUE)

\* recipe.delete(): the rows of the two through tables that point to the
\* recipe go with it; Tag and Ingredient have no foreign key to Recipe, so
\* no row of theirs does.  db is a Snapshot.
delete_recipe_and_entities(db, id) ==
    [db EXCEPT
        !.recipes = {r \in db.recipes : r.id # id},
        !.tags = {t \in db.tags : t.id \notin Linked(db.recipe_tags, id)},
        !.ingredients =
            {g \in db.ingredients : g.id \notin Linked(db.recipe_ingredients, id)},
        !.recipe_tags =
            {l \in db.recipe_tags : l[2] \notin Linked(db.recipe_tags, id)},
        !.recipe_ingredients =
            {l \in db.recipe_ingredients : l[2] \notin Linked(db.recipe_ingredients, id)}]

delete_recipe(db, id) ==
    [db EXCEPT
        !.recipes = {r \in db.recipes : r.id # id},
        !.recipe_tags = clear(db.recipe_tags, id),
        !.recipe_ingredients = clear(db.recipe_ingredients, id)]

\* DELETE /api/recipe/recipes/<id>/
DeleteRecipe(auth_user, id) ==
    LET found == {r \in get_queryset(auth_user) : r.id = id} IN
    /\ served' = served + 1
    /\ UNCHANGED <<recipe_next, tag_next, ingredient_next>>
    /\ IF found = {}
       THEN /\ UNCHANGED <<recipes, tags, ingredients, recipe_tags, recipe_ingredients>>
            /\ last' = Exchange("delete", auth_user, id, FALSE, EmptyBody, 404, FALSE, NoCalls)
       ELSE LET db == delete_recipe(Snapshot, id) IN
            /\ recipes' = db.recipes
            /\ tags' = db.tags
            /\ ingredients' = db.ingredients
            /\ recipe_tags' = db.recipe_tags
            /\ recipe_ingredients' = db.recipe_ingredients
            /\ last' = Exchange("delete", auth_user, id, FALSE, EmptyBody, 204, FALSE, NoCalls)

\* PATCH /api/recipe/tags/<id>/ with a new name
UpdateTag(auth_user, id, name) ==
    LET found == {t \in tags : t.user = auth_user /\ t.id = id} IN
    /\ served' = served + 1
    /\ UNCHANGED <<recipes, ingredients, recipe_tags, recipe_ingredients,
                   recipe_next, tag_next, ingredient_next>>
    /\ IF found = {}
       THEN /\ UNCHANGED tags
            /\ last' = Exchange("update_tag", auth_user, id, TRUE, [name |-> name], 404, FALSE, NoCalls)
       ELSE /\ tags' = (tags \ found) \cup {[t EXCEPT !.name = name] : t \in found}
            /\ last' = Exchange("update_tag", auth_user, id, TRUE, [name |-> name], 200, FALSE, NoCalls)

\* PATCH /api/recipe/ingredients/<id>/ with a new name
UpdateIngredient(auth_user, id, name) ==
    LET found == {t \in ingredients : t.user = auth_user /\ t.id = id} IN
    /\ served' = served + 1
    /\ UNCHANGED <<recipes, tags, recipe_tags, recipe_ingredients,
                   recipe_next, tag_next, ingredient_next>>
    /\ IF found = {}
       THEN /\ UNCHANGED ingredients
            /\ last' = Exchange("update_ingredient", auth_user, id, TRUE,
                                [name |-> name], 404, FALSE, NoCalls)
       ELSE /\ ingredients' = (ingredients \ found)
                                  \cup {[t EXCEPT !.name = name] : t \in found}
            /\ last' = Exchange("update_ingredient", auth_user, id, TRUE,
                                [name |-> name], 200, FALSE, NoCalls)

\* GET /api/recipe/recipes/, /api/recipe/tags/ and /api/recipe/ingredients/,
\* the last two with or without ?assigned_only=1.  result is the response.
Listing(op, auth_user, assigned_only, result) ==
    Exchange(op, auth_user, 0, FALSE, EmptyBody, 200, FALSE, NoCalls)
        @@ [assigned_only |-> assigned_only, result |-> result]

ListRecipes(auth_user) ==
    /\ last' = Listing("list_recipes", auth_user, FALSE, Once(get_queryset(auth_user)))
    /\ UNCHANGED <<Tables, UserTables, recipe_next, served, requests>>

ListTags(auth_user, assigned_only) ==
    /\ last' = Listing("list_tags", auth_user, assigned_only,
                       attr_queryset(tags, recipe_tags, auth_user, assigned_only))
    /\ UNCHANGED <<Tables, UserTables, recipe_next, served, requests>>

ListIngredients(auth_user, assigned_only) ==
    /\ last' = Listing("list_ingredients", auth_user, assigned_only,
                       attr_queryset(ingredients, recipe_ingredients,
                                     auth_user, assigned_only))
    /\ UNCHANGED <<Tables, UserTables, recipe_next, served, requests>>

\* An administrator deletes a user (core/admin.py registers User); this is
\* no request of the recipe API, so the exchange carries no HTTP status.
DeleteUser(id) ==
    LET db == delete_user(Snapshot @@ [users |-> users], id) IN
    /\ served' = served + 1
    /\ users' = db.users
    /\ recipes' = db.recipes
    /\ tags' = db.tags
    /\ ingredients' = db.ingredients
    /\ recipe_tags' = db.recipe_tags
    /\ recipe_ingredients' = db.recipe_ingredients
    /\ UNCHANGED <<recipe_next, tag_next, ingredient_next, user_next, requests>>
    /\ last' = Exchange("delete_user", id, 0, FALSE, EmptyBody, 0, FALSE, NoCalls)

\* The response has been returned; the exchange is over.
Respond ==
    /\ last # NoExchange
    /\ last' = NoExchange
    /\ UNCHANGED <<Tables, UserTables, recipe_next, served, requests>>

\* The two users that the tests of the recipe API register in setUp.
SetUpUsers ==
    {[id |-> "u1", email |-> <<97, 64, 97>>, is_staff |-> FALSE, is_superuser |-> FALSE],
     [id |-> "u2", email |-> <<97, 97, 64, 97>>, is_staff |-> FALSE, is_superuser |-> FALSE]}

Init ==
    /\ recipes = {}
    /\ tags = {}
    /\ ingredients = {}
    /\ recipe_tags = {}
    /\ recipe_ingredients = {}
    /\ recipe_next = 1
    /\ tag_next = 1
    /\ ingredient_next = 1
    /\ users = SetUpUsers
    /\ user_next = 3
    /\ served = 0
    /\ last = NoExchange
    /\ requests = [w \in Workers |-> NoRequest]

\* The requests of the model address the primary keys handed out so far: a
\* key of a row that exists or of one that was deleted.
\* Only a registered user holds a token, so the caller is a row of users.
CreateRecipeRequest ==
    /\ Idle
    /\ UNCHANGED <<UserTables, requests>>
    /\ \E u \in UserIds, d \in RequestBodies : CreateRecipe(u, d)

UpdateRecipeRequest ==
    /\ Idle
    /\ UNCHANGED <<UserTables, requests>>
    /\ \E u \in UserIds, id \in 1..(recipe_next - 1), p \in BOOLEAN,
              d \in RequestBodies :
           UpdateRecipe(u, id, p, d)

DeleteRecipeRequest ==
    /\ Idle
    /\ UNCHANGED <<UserTables, requests>>
    /\ \E u \in UserIds, id \in 1..(recipe_next - 1) : DeleteRecipe(u, id)

UpdateTagRequest ==
    /\ Idle
    /\ UNCHANGED <<UserTables, requests>>
    /\ \E u \in UserIds, id \in 1..(tag_next - 1), n \in Names : UpdateTag(u, id, n)

UpdateIngredientRequest ==
    /\ Idle
    /\ UNCHANGED <<UserTables, requests>>
    /\ \E u \in UserIds, id \in 1..(ingredient_next - 1), n \in Names :
           UpdateIngredient(u, id, n)

DeleteUserRequest == Idle /\ \E u \in UserIds : DeleteUser(u)

\* A listing writes nothing, so it is not counted among the MaxRequests
\* requests: it can follow the last of them.
ListRecipesRequest == last = NoExchange /\ \E u \in UserIds : ListRecipes(u)

ListTagsRequest ==
    last = NoExchange /\ \E u \in UserIds, a \in BOOLEAN : ListTags(u, a)

ListIngredientsRequest ==
    last = NoExchange /\ \E u \in UserIds, a \in BOOLEAN : ListIngredients(u, a)

Next ==
    \/ CreateRecipeRequest
    \/ UpdateRecipeRequest
    \/ RepeatUpdate
    \/ DeleteRecipeRequest
    \/ UpdateTagRequest
    \/ UpdateIngredientRequest
    \/ DeleteUserRequest
    \/ ListRecipesRequest
    \/ ListTagsRequest
    \/ ListIngredientsRequest
    \/ Respond

Spec == Init /\ [][Next]_vars

(***************************************************************************)
(* The user manager on its own: calls of create_user and create_superuser  *)
(* on a database that starts without users.  The exchange records the call *)
(* (the email given, the exception raised if any, the key of the new row)  *)
(* and the users as the call found them.  A call of create_superuser is    *)
(* two steps: CreateSuperuser is its call of create_user, recorded in the  *)
(* exchange, after which the worker holds the user object with the flags   *)
(* set (requests[w].instance); SaveSuperuser is its second save.  Other    *)
(* calls can run between the two.                                          *)
(***************************************************************************)
ManagerCall(op, email, r) ==
    [op |-> op, email |-> email, raised |-> r.raised, obj |-> r.obj, pre_users |-> users]

CommitUsers(op, email, r) ==
    /\ r.next <= MaxUsers + 1
    /\ users' = r.rows
    /\ user_next' = r.next
    /\ last' = ManagerCall(op, email, r)
    /\ UNCHANGED <<Tables, recipe_next, served, requests>>

CreateUser(email) == CommitUsers("create_user", email, create_user(UserStore, email))

CreateSuperuser(w, email) ==
    LET r == create_user(UserStore, email) IN
    /\ requests[w].pc = "idle"
    /\ r.next <= MaxUsers + 1
    /\ users' = r.rows
    /\ user_next' = r.next
    /\ last' = ManagerCall("create_superuser", email, r)
    /\ requests' =
           IF r.raised # "" THEN requests
           ELSE [requests EXCEPT ![w] =
                    [NoRequest EXCEPT
                        !.pc = "save_superuser", !.op = "create_superuser",
                        !.instance = as_superuser(CHOOSE x \in r.rows : x.id = r.obj)]]
    /\ UNCHANGED <<Tables, recipe_next, served>>

SaveSuperuser(w) ==
    LET r == save(UserStore, requests[w].instance) IN
    /\ requests[w].pc = "save_superuser"
    /\ users' = r.rows
    /\ requests' = [requests EXCEPT ![w] = NoRequest]
    /\ UNCHANGED <<Tables, recipe_next, served, user_next, last>>

CreateUserCall == last = NoExchange /\ \E email \in EmailArgs : CreateUser(email)

CreateSuperuserCall ==
    last = NoExchange /\ \E w \in Workers, email \in EmailArgs : CreateSuperuser(w, email)

SaveSuperuserCall == last = NoExchange /\ \E w \in Workers : SaveSuperuser(w)

InitUsers ==
    /\ recipes = {}
    /\ tags = {}
    /\ ingredients = {}
    /\ recipe_tags = {}
    /\ recipe_ingredients = {}
    /\ recipe_next = 1
    /\ tag_next = 1
    /\ ingredient_next = 1
    /\ users = {}
    /\ user_next = 1
    /\ served = 0
    /\ last = NoExchange
    /\ requests = [w \in Workers |-> NoRequest]

NextUsers ==
    \/ CreateUserCall
    \/ CreateSuperuserCall
    \/ SaveSuperuserCall
    \/ Respond

UserSpec == InitUsers /\ [][NextUsers]_vars

(***************************************************************************)
(* Two workers serve the recipe API at the same time.  The database runs   *)
(* each statement of a handler on its own (autocommit, no atomic block     *)
(* around a handler), so the statements of two requests interleave:        *)
(*   Recipe.objects.create(...)                       CreateRecipeRow      *)
(*   instance.tags.clear()                            ClearTags            *)
(*   get_or_create: the SELECT of get()               GetTag               *)
(*   get_or_create: the INSERT of create()            InsertTag            *)
(*   recipe.tags.add(tag_obj)                         AddTag               *)
(*   instance.save()                                  SaveRecipe           *)
(* The bodies of these requests carry no ingredients: create loops over an *)
(* empty list of them and update skips them.                               *)
(***************************************************************************)
RaceCreateBodies == {FullScalars @@ p : p \in TagParts}

RacePatchBodies == TagParts

\* tags = validated_data.pop('tags', []) in create, pop('tags', None) in update
tags_arg(req) ==
    pop(ValidatedData(req.data), "tags",
        IF req.op = "create" THEN Value(<<>>) ELSE None)

\* The handler at the descriptor of index i: the loop goes on with
\* get_or_create, or it is over; create then returns the recipe (201) and
\* update goes on to instance.save().
at_descriptor(req, i) ==
    IF ~tags_arg(req).is_none /\ i <= Len(tags_arg(req).value)
    THEN [req EXCEPT !.i = i, !.pc = "get"]
    ELSE IF req.op = "create"
    THEN [req EXCEPT !.i = i, !.pc = "done", !.status = 201]
    ELSE [req EXCEPT !.i = i, !.pc = "save"]

InProgress(w) == requests[w].pc \notin {"idle", "done"}

\* The view takes a request: the serializer validates the body, and for an
\* update get_object() loads the recipe from the caller's queryset.
Arrive(w, auth_user, op, id, data) ==
    LET req == [NoRequest EXCEPT !.op = op, !.user = auth_user, !.id = id,
                                 !.data = data, !.pre = tags,
                                 !.overlapped = \E o \in Workers \ {w} : InProgress(o)]
        found == {r \in get_queryset(auth_user) : r.id = id}
        taken ==
            IF op = "create"
            THEN IF ~IsValid(data, FALSE)
                 THEN [req EXCEPT !.pc = "done", !.status = 400]
                 ELSE [req EXCEPT !.pc = "create_recipe"]
            ELSE IF found = {}
            THEN [req EXCEPT !.pc = "done", !.status = 404]
            ELSE IF ~IsValid(data, TRUE)
            THEN [req EXCEPT !.pc = "done", !.status = 400]
            ELSE IF tags_arg(req).is_none
            THEN [req EXCEPT !.pc = "save", !.instance = CHOOSE r \in found : TRUE]
            ELSE [req EXCEPT !.pc = "clear", !.instance = CHOOSE r \in found : TRUE]
    IN /\ ~InProgress(w)
       /\ served < MaxRequests
       /\ served' = served + 1
       /\ requests' = [o \in Workers |->
                          IF o = w THEN taken
                          ELSE IF InProgress(o)
                          THEN [requests[o] EXCEPT !.overlapped = TRUE]
                          ELSE requests[o]]
       /\ UNCHANGED <<Tables, UserTables, recipe_next, last>>

\* recipe = Recipe.objects.create(**validated_data)
CreateRecipeRow(w) ==
    LET req == requests[w]
        recipe == pre_save([id |-> recipe_next]
                               @@ Popped([user |-> req.user] @@ ValidatedData(req.data))
                               @@ RecipeDefaults)
    IN /\ req.pc = "create_recipe"
       /\ recipe_next <= MaxRecipes
       /\ recipes' = recipes \cup {recipe}
       /\ recipe_next' = recipe_next + 1
       /\ requests' = [requests EXCEPT
              ![w] = at_descriptor([req EXCEPT !.id = recipe.id, !.instance = recipe], 1)]
       /\ UNCHANGED <<tags, ingredients, recipe_tags, recipe_ingredients,
                      tag_next, ingredient_next, UserTables, served, last>>

\* instance.tags.clear()
ClearTags(w) ==
    LET req == requests[w] IN
    /\ req.pc = "clear"
    /\ recipe_tags' = clear(recipe_tags, req.id)
    /\ requests' = [requests EXCEPT ![w] = at_descriptor(req, 1)]
    /\ UNCHANGED <<recipes, tags, ingredients, recipe_ingredients, recipe_next,
                   tag_next, ingredient_next, UserTables, served, last>>

\* get_or_create(user=auth_user, **tag), first half: get() finds the row,
\* finds none (create() is next), or finds several and raises
\* MultipleObjectsReturned, which nothing catches: the answer is 500.
GetTag(w) ==
    LET req == requests[w]
        found == Matching(tags, req.user, tags_arg(req).value[req.i].name)
    IN /\ req.pc = "get"
       /\ requests' = [requests EXCEPT ![w] =
              IF Cardinality(found) = 1
              THEN [req EXCEPT !.obj = (CHOOSE t \in found : TRUE).id, !.pc = "add"]
              ELSE IF found = {}
              THEN [req EXCEPT !.pc = "insert"]
              ELSE [req EXCEPT !.pc = "done", !.status = 500]]
       /\ UNCHANGED <<Tables, UserTables, recipe_next, served, last>>

\* get_or_create, second half: create() inserts the row that get() missed.
InsertTag(w) ==
    LET req == requests[w] IN
    /\ req.pc = "insert"
    /\ tag_next <= MaxTags
    /\ tags' = tags \cup {[id |-> tag_next, user |-> req.user,
                           name |-> tags_arg(req).value[req.i].name]}
    /\ tag_next' = tag_next + 1
    /\ requests' = [requests EXCEPT ![w] = [req EXCEPT !.obj = tag_next, !.pc = "add"]]
    /\ UNCHANGED <<recipes, ingredients, recipe_tags, recipe_ingredients,
                   recipe_next, ingredient_next, UserTables, served, last>>

\* recipe.tags.add(tag_obj)
AddTag(w) ==
    LET req == requests[w] IN
    /\ req.pc = "add"
    /\ recipe_tags' = recipe_tags \cup {<<req.id, req.obj>>}
    /\ requests' = [requests EXCEPT ![w] = at_descriptor(req, req.i + 1)]
    /\ UNCHANGED <<recipes, tags, ingredients, recipe_ingredients, recipe_next,
                   tag_next, ingredient_next, UserTables, served, last>>

\* setattr(instance, attr, value) for the scalars; instance.save()
SaveRecipe(w) ==
    LET req == requests[w] IN
    /\ req.pc = "save"
    /\ recipes' = {r \in recipes : r.id # req.id}
                      \cup {pre_save(setattrs(req.instance,
                                               Popped(ValidatedData(req.data))))}
    /\ requests' = [requests EXCEPT ![w] = [req EXCEPT !.pc = "done", !.status = 200]]
    /\ UNCHANGED <<tags, ingredients, recipe_tags, recipe_ingredients, recipe_next,
                   tag_next, ingredient_next, UserTables, served, last>>

ArriveRequest ==
    \E w \in Workers, u \in UserIds :
        \/ \E d \in RaceCreateBodies : Arrive(w, u, "create", 0, d)
        \/ \E id \in 1..(recipe_next - 1), d \in RacePatchBodies :
               Arrive(w, u, "update", id, d)

NextRace ==
    \/ ArriveRequest
    \/ \E w \in Workers : CreateRecipeRow(w)
    \/ \E w \in Workers : ClearTags(w)
    \/ \E w \in Workers : GetTag(w)
    \/ \E w \in Workers : InsertTag(w)
    \/ \E w \in Workers : AddTag(w)
    \/ \E w \in Workers : SaveRecipe(w)

RaceSpec == Init /\ [][NextRace]_vars

TypeOK ==
    /\ recipe_next \in 1..(MaxRecipes + 1)
    /\ tag_next \in 1..(MaxTags + 1)
    /\ ingredient_next \in 1..(MaxIngredients + 1)
    /\ served \in 0..MaxRequests
    /\ UserIds \subseteq Users
    /\ \A r \in recipes : r.user \in Users /\ r.id \in 1..MaxRecipes
    /\ \A t \in tags : t.user \in Users /\ t.name \in Names \cup {""}
    /\ \A t \in ingredients : t.user \in Users /\ t.name \in Names \cup {""}

(***************************************************************************)
(* Reading the store, now and as the request of the exchange found it.     *)
(***************************************************************************)
NamesIn(descs) == {kwargs_name(descs[i]) : i \in 1..Len(descs)}

RowsLinked(rows, links, id) == {t \in rows : t.id \in Linked(links, id)}

\* recipe.tags.all() and recipe.ingredients.all() read after the request
TagsNow(id) == RowsLinked(tags, recipe_tags, id)

IngredientsNow(id) == RowsLinked(ingredients, recipe_ingredients, id)

\* the same reads before the request
TagsBefore(id) == RowsLinked(last.pre.tags, last.pre.recipe_tags, id)

IngredientsBefore(id) == RowsLinked(last.pre.ingredients, last.pre.recipe_ingredients, id)

Supplies(key) == key \in DOMAIN last.data

\* The list that the body carries under key has a descriptor without a name.
LacksName(key) ==
    /\ Supplies(key)
    /\ \E i \in 1..Len(last.data[key]) : "name" \notin DOMAIN last.data[key][i]

\* Every descriptor of the body is a {name} record.
NamedDescriptors == ~LacksName("tags") /\ ~LacksName("ingredients")

\* The exchange is an update of a recipe of the caller with a body of named
\* descriptors that passes validation: serializer.update() ran.
UpdateRan ==
    /\ last.op = "update"
    /\ \E r \in last.pre.recipes : r.id = last.id /\ r.user = last.user
    /\ IsValid(last.data, last.partial)
    /\ NamedDescriptors

\* The exchange is a create with a body that passes validation:
\* serializer.create() ran.
CreateRan == last.op = "create" /\ IsValid(last.data, FALSE)

\* The rows are exactly one entity per distinct name of descs, all of user.
ExactlyNamed(rows, descs, user) ==
    /\ {t.name : t \in rows} = NamesIn(descs)
    /\ \A n \in NamesIn(descs) : Cardinality({t \in rows : t.name = n}) = 1
    /\ \A t \in rows : t.user = user

(***************************************************************************)
(* C1.  After an update of a recipe by its owner u that supplies the       *)
(* descriptor list D as tags, the recipe's tags are exactly one Tag of u   *)
(* per distinct name of D, and nothing else; likewise for ingredients.     *)
(* The code does not meet this when u owns two tags of one name (reached   *)
(* by renaming a tag): get_or_create raises MultipleObjectsReturned after  *)
(* the associations were cleared.                                          *)
(***************************************************************************)
C1_UpdateYieldsExactlyD ==
    UpdateRan =>
        /\ Supplies("tags") =>
               ExactlyNamed(TagsNow(last.id), last.data["tags"], last.user)
        /\ Supplies("ingredients") =>
               ExactlyNamed(IngredientsNow(last.id), last.data["ingredients"], last.user)

(***************************************************************************)
(* C2.  An update whose body has no tags key leaves the tag associations   *)
(* of the recipe as they were, and one whose body has no ingredients key   *)
(* leaves its ingredient associations as they were, each whatever the      *)
(* other key carries.                                                      *)
(***************************************************************************)
C2_AbsentKeepsAssociations ==
    last.op = "update" =>
        /\ ~Supplies("tags") =>
               Linked(recipe_tags, last.id) = Linked(last.pre.recipe_tags, last.id)
        /\ ~Supplies("ingredients") =>
               Linked(recipe_ingredients, last.id)
                   = Linked(last.pre.recipe_ingredients, last.id)

\* An update without a tags key changed the ingredients of a recipe that has tags.
C2_Witness ==
    /\ UpdateRan
    /\ last.status = 200
    /\ ~Supplies("tags")
    /\ Supplies("ingredients")
    /\ TagsBefore(last.id) # {}
    /\ IngredientsNow(last.id) # IngredientsBefore(last.id)

(***************************************************************************)
(* C3.  An update that supplies an empty tags list leaves the recipe with  *)
(* no tag association, and every Tag row that existed before the update    *)
(* exists after it.                                                        *)
(***************************************************************************)
C3_EmptyClearsKeepsRows ==
    (UpdateRan /\ Supplies("tags") /\ Len(last.data["tags"]) = 0) =>
        /\ TagsNow(last.id) = {}
        /\ Linked(recipe_tags, last.id) = {}
        /\ last.pre.tags \subseteq tags

\* An update with an empty tags list was served for a recipe that had tags.
C3_Witness ==
    /\ UpdateRan
    /\ last.status = 200
    /\ Supplies("tags")
    /\ Len(last.data["tags"]) = 0
    /\ TagsBefore(last.id) # {}

(***************************************************************************)
(* C4.  After an update that supplies the list D, every entity that was    *)
(* associated with the recipe and whose name is not in D is no longer      *)
(* associated with it but still exists with its owner and name, and every  *)
(* name of D is associated; for tags and for ingredients.  The code does   *)
(* not meet the last part, nor any part for ingredients, when a loop       *)
(* raises (see C1).                                                        *)
(***************************************************************************)
StaleDropped(before, now, rows, descs) ==
    /\ \A t \in before : t.name \notin NamesIn(descs) => (t \notin now /\ t \in rows)
    /\ \A n \in NamesIn(descs) : \E t \in now : t.name = n

C4_StaleDroppedNamedAdded ==
    UpdateRan =>
        /\ Supplies("tags") =>
               StaleDropped(TagsBefore(last.id), TagsNow(last.id), tags, last.data["tags"])
        /\ Supplies("ingredients") =>
               StaleDropped(IngredientsBefore(last.id), IngredientsNow(last.id),
                            ingredients, last.data["ingredients"])

(***************************************************************************)
(* C5.  When the update just served is sent once more, the second call     *)
(* creates no Tag and no Ingredient row and leaves the recipe associated   *)
(* with the entities it was associated with after the first call.          *)
(***************************************************************************)
C5_SecondCallNoOp ==
    last.repeated =>
        /\ tags = last.pre.tags
        /\ ingredients = last.pre.ingredients
        /\ Linked(recipe_tags, last.id) = Linked(last.pre.recipe_tags, last.id)
        /\ Linked(recipe_ingredients, last.id)
               = Linked(last.pre.recipe_ingredients, last.id)

\* The second of two equal updates that supply tags was served.
C5_Witness ==
    /\ last.repeated
    /\ UpdateRan
    /\ last.status = 200
    /\ Supplies("tags")
    /\ TagsNow(last.id) # {}

(***************************************************************************)
(* C6.  After a create or an update by u with the list D, every name of D  *)
(* that u had an entity for is associated through an entity that existed   *)
(* before, and the number of rows the request added is the number of       *)
(* distinct names of D that u had no entity for.  The code does not meet   *)
(* this when a loop raises (see C1): the names after the one that raised   *)
(* are neither associated nor created.                                     *)
(***************************************************************************)
Owned(rows, user, name) == {t \in rows : t.user = user /\ t.name = name}

ReusedAndCounted(rowsBefore, rowsNow, linkedNow, descs, user) ==
    /\ \A n \in NamesIn(descs) :
           Owned(rowsBefore, user, n) # {} =>
               \E t \in linkedNow \cap rowsBefore : t.user = user /\ t.name = n
    /\ Cardinality(rowsNow \ rowsBefore)
           = Cardinality({n \in NamesIn(descs) : Owned(rowsBefore, user, n) = {}})

C6_ExistingReusedNewCounted ==
    (UpdateRan \/ CreateRan) =>
        /\ Supplies("tags") =>
               ReusedAndCounted(last.pre.tags, tags, TagsNow(last.id),
                                last.data["tags"], last.user)
        /\ Supplies("ingredients") =>
               ReusedAndCounted(last.pre.ingredients, ingredients,
                                IngredientsNow(last.id),
                                last.data["ingredients"], last.user)

(***************************************************************************)
(* C7.  In every reachable state each Tag and each Ingredient associated   *)
(* with a Recipe has the owner of that Recipe.                             *)
(***************************************************************************)
C7_AssociationsShareOwner ==
    \A r \in recipes :
        /\ \A t \in TagsNow(r.id) : t.user = r.user
        /\ \A g \in IngredientsNow(r.id) : g.user = r.user

\* Two recipes of different owners each carry a tag of the same name.
C7_Witness ==
    \E r1 \in recipes, r2 \in recipes :
        /\ r1.user # r2.user
        /\ \E t1 \in TagsNow(r1.id), t2 \in TagsNow(r2.id) : t1.name = t2.name

(***************************************************************************)
(* C8.  Every get_or_create of a create or update request runs for the     *)
(* authenticated caller, whatever user the body names: the entity it       *)
(* returns is owned by the caller; when the caller had no entity of that   *)
(* name it is a new row, also when another user has one of that name; no   *)
(* entity of another user is associated with the recipe; and the rows of   *)
(* the other users are the same before and after the request.              *)
(***************************************************************************)
Ids(rows) == {t.id : t \in rows}

CallerOnly(calls, rowsBefore, rowsNow, linkedNow) ==
    /\ \A c \in calls :
           /\ c.user = last.user
           /\ \E t \in rowsNow : t.id = c.obj /\ t.user = last.user /\ t.name = c.name
           /\ Owned(rowsBefore, last.user, c.name) = {} => c.obj \notin Ids(rowsBefore)
    /\ \A t \in linkedNow : t.user = last.user
    /\ {t \in rowsNow : t.user # last.user} = {t \in rowsBefore : t.user # last.user}

C8_GetOrCreateScopedToCaller ==
    (UpdateRan \/ CreateRan) =>
        /\ CallerOnly(last.tag_calls, last.pre.tags, tags, TagsNow(last.id))
        /\ CallerOnly(last.ingredient_calls, last.pre.ingredients, ingredients,
                      IngredientsNow(last.id))

\* The caller reconciled a name that only another user had a tag for, in a
\* request whose body names that other user.
C8_Witness ==
    /\ UpdateRan \/ CreateRan
    /\ Supplies("user")
    /\ last.data["user"] # last.user
    /\ \E c \in last.tag_calls :
           /\ Owned(last.pre.tags, last.user, c.name) = {}
           /\ \E t \in last.pre.tags : t.name = c.name /\ t.user # last.user

(***************************************************************************)
(* C9.  An update, full or partial, never changes the owner of a recipe,   *)
(* whatever user its body names.                                           *)
(***************************************************************************)
C9_OwnerImmutable ==
    last.op = "update" =>
        \A r \in last.pre.recipes :
            \E r2 \in recipes : r2.id = r.id /\ r2.user = r.user

\* A full update whose body names another user as owner was served.
C9_Witness ==
    /\ UpdateRan
    /\ last.status = 200
    /\ ~last.partial
    /\ Supplies("user")
    /\ last.data["user"] # last.user

(***************************************************************************)
(* C10.  An update or a delete of a recipe whose owner is not the caller   *)
(* is answered 404, and the recipe keeps its fields and its tag and        *)
(* ingredient associations.                                                *)
(***************************************************************************)
C10_ForeignRecipeNotFound ==
    \A r \in last.pre.recipes :
        (last.op \in {"update", "delete"} /\ r.id = last.id /\ r.user # last.user) =>
            /\ last.status = 404
            /\ r \in recipes
            /\ Linked(recipe_tags, r.id) = Linked(last.pre.recipe_tags, r.id)
            /\ Linked(recipe_ingredients, r.id)
                   = Linked(last.pre.recipe_ingredients, r.id)

\* A user asked to delete a recipe of another user that has tags.
C10_Witness ==
    /\ last.op = "delete"
    /\ \E r \in last.pre.recipes :
           r.id = last.id /\ r.user # last.user /\ TagsBefore(r.id) # {}

(***************************************************************************)
(* C11.  An update with a body of named descriptors that fails leaves the  *)
(* recipe as the request found it: its row (the scalar fields) and its tag *)
(* and ingredient associations are the same before and after.  The code    *)
(* does not meet this: update() runs in no transaction, so when            *)
(* get_or_create raises (see C1) the clear() and the associations added    *)
(* before the exception stay written.                                      *)
(***************************************************************************)
C11_FailedUpdateChangesNothing ==
    (last.op = "update" /\ last.status # 200 /\ NamedDescriptors) =>
        \A r \in last.pre.recipes :
            r.id = last.id =>
                /\ r \in recipes
                /\ Linked(recipe_tags, r.id) = Linked(last.pre.recipe_tags, r.id)
                /\ Linked(recipe_ingredients, r.id)
                       = Linked(last.pre.recipe_ingredients, r.id)

(***************************************************************************)
(* C12.  A create or update request with a tag or ingredient descriptor    *)
(* that lacks the name key writes nothing: the Recipe, Tag and Ingredient  *)
(* rows and the associations of every recipe are as the request found      *)
(* them; and when the request reaches the serializer (a create, or an      *)
(* update of a recipe of the caller) it is answered 400.  The code does    *)
(* not meet this for PATCH: the name of a descriptor is not required in a  *)
(* partial update, and update() runs get_or_create(user=auth_user) without *)
(* a name.                                                                 *)
(***************************************************************************)
ReachesSerializer ==
    \/ last.op = "create"
    \/ /\ last.op = "update"
       /\ \E r \in last.pre.recipes : r.id = last.id /\ r.user = last.user

C12_NamelessDescriptorRejected ==
    (last.op \in {"create", "update"} /\ (LacksName("tags") \/ LacksName("ingredients"))) =>
        /\ Snapshot = last.pre
        /\ ReachesSerializer => last.status = 400

(***************************************************************************)
(* C13.  A create by user u adds exactly one Recipe row, owned by u and    *)
(* carrying the scalar fields of the body, and removes none; the tags of   *)
(* the new recipe are exactly one Tag of u per distinct name of the tags   *)
(* list, none when the body has no tags key, and likewise for its          *)
(* ingredients.  The code does not meet the second part when get_or_create *)
(* raises (see C1): the row is inserted, the request is answered 500 and   *)
(* the names from the one that raised on are not associated.               *)
(***************************************************************************)
ScalarFields == {"title", "description", "time_minutes", "price", "link"}

ResolvedOrNone(linkedNow, key) ==
    IF Supplies(key)
    THEN ExactlyNamed(linkedNow, last.data[key], last.user)
    ELSE linkedNow = {}

C13_CreateAddsOneRecipeWithResolved ==
    CreateRan =>
        /\ last.pre.recipes \subseteq recipes
        /\ Cardinality(recipes \ last.pre.recipes) = 1
        /\ \A r \in recipes \ last.pre.recipes :
               /\ r.id = last.id
               /\ r.user = last.user
               /\ \A k \in ScalarFields \cap DOMAIN last.data : r[k] = last.data[k]
        /\ ResolvedOrNone(TagsNow(last.id), "tags")
        /\ ResolvedOrNone(IngredientsNow(last.id), "ingredients")

(***************************************************************************)
(* C14.  After an update of a recipe by its owner, every scalar field      *)
(* (title, description, link, time_minutes, price) that the body carries   *)
(* has the value of the body, every scalar field that the body does not    *)
(* carry has the value it had before, and so has the owner: a partial      *)
(* update changes the fields of its body only, and a full update, whose    *)
(* body carries them all, sets them all.  The code does not meet the first *)
(* part when get_or_create raises (see C1): instance.save() is not         *)
(* reached and no field of the body is stored.                             *)
(***************************************************************************)
IsFullBody == ScalarFields \subseteq DOMAIN last.data

C14_ScalarsSetOthersKept ==
    (UpdateRan /\ (last.partial \/ IsFullBody)) =>
        \A r \in last.pre.recipes :
            r.id = last.id =>
                \E r2 \in recipes :
                    /\ r2.id = r.id
                    /\ r2.user = r.user
                    /\ \A k \in ScalarFields :
                           r2[k] = IF k \in DOMAIN last.data THEN last.data[k] ELSE r[k]

(***************************************************************************)
(* C15.  A listing of tags or of ingredients with assigned_only returns    *)
(* the entities of the caller that at least one recipe is associated with, *)
(* and no other; and it returns each of them once, however many recipes    *)
(* are associated with it.                                                 *)
(***************************************************************************)
Referenced(rows, links) == {t \in rows : \E l \in links : l[2] = t.id}

ExactlyOnce(result, rows) ==
    /\ DOMAIN result = rows
    /\ \A t \in rows : result[t] = 1

C15_AssignedOnlyEachOnce ==
    /\ (last.op = "list_tags" /\ last.assigned_only) =>
           ExactlyOnce(last.result,
               {t \in Referenced(tags, recipe_tags) : t.user = last.user})
    /\ (last.op = "list_ingredients" /\ last.assigned_only) =>
           ExactlyOnce(last.result,
               {g \in Referenced(ingredients, recipe_ingredients) : g.user = last.user})

\* The caller listed the assigned tags while owning a tag that two recipes
\* carry and a tag that no recipe carries.
C15_Witness ==
    /\ last.op = "list_tags"
    /\ last.assigned_only
    /\ \E t \in tags :
           /\ t.user = last.user
           /\ Cardinality({l \in recipe_tags : l[2] = t.id}) = 2
    /\ \E t \in tags : t.user = last.user /\ t \notin Referenced(tags, recipe_tags)

(***************************************************************************)
(* C16.  A listing of recipes, and a listing of tags or of ingredients     *)
(* without assigned_only, returns the rows whose owner is the caller, each *)
(* once, and no row of another user.                                       *)
(***************************************************************************)
C16_ListingOwnRowsOnly ==
    /\ last.op = "list_recipes" =>
           ExactlyOnce(last.result, {r \in recipes : r.user = last.user})
    /\ (last.op = "list_tags" /\ ~last.assigned_only) =>
           ExactlyOnce(last.result, {t \in tags : t.user = last.user})
    /\ (last.op = "list_ingredients" /\ ~last.assigned_only) =>
           ExactlyOnce(last.result, {g \in ingredients : g.user = last.user})

\* The caller listed the tags while the caller and another user each own a
\* tag, both of the same name.
C16_Witness ==
    /\ last.op = "list_tags"
    /\ ~last.assigned_only
    /\ \E t1 \in tags, t2 \in tags :
           t1.user = last.user /\ t2.user # last.user /\ t1.name = t2.name

(***************************************************************************)
(* C17.  A delete of a recipe by its owner removes the Recipe row and the  *)
(* through rows of that recipe and nothing else: every Tag and Ingredient  *)
(* row is still there, the other recipes are there with the associations   *)
(* they had; and deletion is final: in every state the through rows point  *)
(* to existing recipes only, and every primary key in use was handed out   *)
(* before, so a later create never brings a deleted recipe back.           *)
(***************************************************************************)
C17_DeleteRemovesRecipeAndLinksOnly ==
    /\ (last.op = "delete" /\ last.status = 204) =>
           /\ recipes = {r \in last.pre.recipes : r.id # last.id}
           /\ tags = last.pre.tags
           /\ ingredients = last.pre.ingredients
           /\ recipe_tags = {l \in last.pre.recipe_tags : l[1] # last.id}
           /\ recipe_ingredients = {l \in last.pre.recipe_ingredients : l[1] # last.id}
    /\ \A l \in recipe_tags \cup recipe_ingredients : \E r \in recipes : r.id = l[1]
    /\ \A r \in recipes : r.id < recipe_next

\* A recipe was deleted that carried a tag which another recipe carries too.
C17_Witness ==
    /\ last.op = "delete"
    /\ last.status = 204
    /\ \E t \in TagsBefore(last.id) : \E r \in recipes : t \in TagsNow(r.id)

(***************************************************************************)
(* C18.  In every state each Recipe, Tag and Ingredient row names as its   *)
(* user exactly one row of the users, and no two users share a primary     *)
(* key.  After a user was deleted, no Recipe, Tag or Ingredient of that    *)
(* user is left, and the rows and the associations of the other users are  *)
(* the ones that were there before.                                        *)
(***************************************************************************)
OwnedRows == recipes \cup tags \cup ingredients

NotOf(rows, user) == {x \in rows : x.user # user}

LinksNotOf(links, user) ==
    {l \in links : \E r \in NotOf(last.pre.recipes, user) : r.id = l[1]}

C18_UserDeleteCascades ==
    /\ \A x \in OwnedRows : Cardinality({u \in users : u.id = x.user}) = 1
    /\ last.op = "delete_user" =>
           /\ last.user \notin UserIds
           /\ \A x \in OwnedRows : x.user # last.user
           /\ recipes = NotOf(last.pre.recipes, last.user)
           /\ tags = NotOf(last.pre.tags, last.user)
           /\ ingredients = NotOf(last.pre.ingredients, last.user)
           /\ recipe_tags = LinksNotOf(last.pre.recipe_tags, last.user)
           /\ recipe_ingredients = LinksNotOf(last.pre.recipe_ingredients, last.user)

\* A user was deleted who owned a recipe with a tag, while another user owns
\* a recipe with a tag of the same name.
C18_Witness ==
    /\ last.op = "delete_user"
    /\ \E r1 \in last.pre.recipes, r2 \in recipes :
           /\ r1.user = last.user
           /\ \E t1 \in TagsBefore(r1.id), t2 \in TagsNow(r2.id) : t1.name = t2.name

(***************************************************************************)
(* C19.  A call of create_user or of create_superuser whose email is None  *)
(* or the empty string raises ValueError, and the stored users are the     *)
(* ones that were stored before the call.                                  *)
(***************************************************************************)
ManagerCalled == last.op \in {"create_user", "create_superuser"}

NoEmailGiven == last.email.is_none \/ Len(last.email.value) = 0

C19_NoEmailNoUser ==
    (ManagerCalled /\ NoEmailGiven) =>
        /\ last.raised = "ValueError"
        /\ users = last.pre_users

\* create_superuser was called with the empty string while a user is stored.
C19_Witness ==
    /\ last.op = "create_superuser"
    /\ ~last.email.is_none
    /\ Len(last.email.value) = 0
    /\ last.pre_users # {}

(***************************************************************************)
(* C20, as claimed.  The email that create_user stores is the normalized   *)
(* form of the email given (the domain part in lower case, the spaces at   *)
(* the ends removed), and no two stored users have emails                  *)
(* that are equal when letter case is ignored.  The code does not meet the *)
(* second part: only the domain part is normalized, so two emails that     *)
(* differ in the case of the local part are two different stored emails.   *)
(***************************************************************************)
\* The lower-case form of a character of the model's alphabet.
LowerCase(c) == IF c = 65 THEN 97 ELSE c

IgnoringCase(e) == [i \in 1..Len(e) |-> LowerCase(e[i])]

\* Position i of e lies in the domain part: after the last "@".
InDomainPart(e, i) ==
    /\ \E j \in 1..(i - 1) : e[j] = 64
    /\ \A k \in i..Len(e) : e[k] # 64

DomainLowered(stored, given) ==
    /\ Len(stored) = Len(given)
    /\ \A i \in 1..Len(given) :
           stored[i] = IF InDomainPart(given, i) THEN LowerCase(given[i]) ELSE given[i]

\* stored is given without the spaces at its ends and with its domain part
\* in lower case; a string without "@" is stored as given.
NormalizedFrom(stored, given) ==
    IF \A i \in 1..Len(given) : given[i] # 64
    THEN stored = given
    ELSE \E a \in 0..Len(given), n \in 1..Len(given) :
             /\ a + n <= Len(given)
             /\ \A i \in 1..a : given[i] = 32
             /\ \A i \in (a + n + 1)..Len(given) : given[i] = 32
             /\ given[a + 1] # 32
             /\ given[a + n] # 32
             /\ DomainLowered(stored, SubSeq(given, a + 1, a + n))

StoredAsNormalized ==
    (ManagerCalled /\ last.raised = "") =>
        \E x \in users \ last.pre_users :
            x.id = last.obj /\ NormalizedFrom(x.email, last.email.value)

C20_EmailsUniqueIgnoringCase ==
    /\ StoredAsNormalized
    /\ \A x \in users, y \in users :
           IgnoringCase(x.email) = IgnoringCase(y.email) => x = y

(***************************************************************************)
(* C20, amended.  The email that create_user stores is the email given     *)
(* without the spaces at its ends, with its domain part in lower case and  *)
(* its local part in the case given (an email without "@" is stored as     *)
(* given), and no two stored users have the same stored email; a call      *)
(* whose normalized email is stored already raises IntegrityError and      *)
(* stores nothing.                                                         *)
(***************************************************************************)
C20_EmailsUniqueAsStored ==
    /\ StoredAsNormalized
    /\ \A x \in users, y \in users : x.email = y.email => x = y
    /\ (ManagerCalled /\ last.raised = "IntegrityError") =>
           /\ users = last.pre_users
           /\ \E x \in users : NormalizedFrom(x.email, last.email.value)

\* create_user stored an email given with an upper-case domain while another
\* user's stored email is the same but for the case of the local part.
C20_Witness ==
    /\ last.op = "create_user"
    /\ last.raised = ""
    /\ \E i \in 1..Len(last.email.value) :
           InDomainPart(last.email.value, i) /\ last.email.value[i] = 65
    /\ \E x \in users, y \in last.pre_users :
           /\ x.id = last.obj
           /\ x.email # y.email
           /\ IgnoringCase(x.email) = IgnoringCase(y.email)

(***************************************************************************)
(* C23: creating or updating one recipe r deletes no Tag or Ingredient     *)
(* row and changes no other recipe: every row of the two tables is still   *)
(* there, the rows that are new are owned by the caller, and every recipe  *)
(* other than r has the row and the tag and ingredient associations it     *)
(* had.  This is so whatever the status of the response is.                *)
(***************************************************************************)
RecipeWritten == last.op \in {"create", "update"}

OthersUntouched(before, now, linksBefore, linksNow, id) ==
    /\ \A r \in before : r.id # id => r \in now
    /\ \A r \in now : r.id # id => r \in before
    /\ \A r \in before :
           r.id # id => Linked(linksNow, r.id) = Linked(linksBefore, r.id)

RowsKeptNewOnesOf(before, now, user) ==
    /\ before \subseteq now
    /\ \A t \in now \ before : t.user = user

C23_OnlyRecipeRTouched ==
    RecipeWritten =>
        /\ RowsKeptNewOnesOf(last.pre.tags, tags, last.user)
        /\ RowsKeptNewOnesOf(last.pre.ingredients, ingredients, last.user)
        /\ OthersUntouched(last.pre.recipes, recipes,
                           last.pre.recipe_tags, recipe_tags, last.id)
        /\ OthersUntouched(last.pre.recipes, recipes,
                           last.pre.recipe_ingredients, recipe_ingredients, last.id)

\* An update of a recipe is answered 200; it created a Tag and left a Tag
\* that the recipe had without the recipe, and another recipe has tags.
C23_Witness ==
    /\ last.op = "update"
    /\ last.status = 200
    /\ tags \ last.pre.tags # {}
    /\ TagsBefore(last.id) \ TagsNow(last.id) # {}
    /\ \E r \in recipes : r.id # last.id /\ Linked(recipe_tags, r.id) # {}

(***************************************************************************)
(* C22: in every reachable state of the API serving its requests one at a  *)
(* time, where Tag and Ingredient rows are created by get_or_create only,  *)
(* no two Tag rows and no two Ingredient rows have the same owner and the  *)
(* same name.                                                              *)
(***************************************************************************)
AtMostOnePerOwnerAndName(rows) ==
    \A x \in rows, y \in rows : x.user = y.user /\ x.name = y.name => x = y

C22_OnePerOwnerAndName ==
    /\ AtMostOnePerOwnerAndName(tags)
    /\ AtMostOnePerOwnerAndName(ingredients)

(***************************************************************************)
(* C21: two requests of one owner u that overlap and both reconcile a name *)
(* n of which u owned no Tag when they arrived both complete (201 or 200), *)
(* a Tag (u, n) exists afterwards, and the recipe of each request is       *)
(* associated with a Tag (u, n).                                           *)
(***************************************************************************)
Reconciles(req, n) ==
    /\ req.op \in {"create", "update"}
    /\ ~tags_arg(req).is_none
    /\ n \in NamesIn(tags_arg(req).value)

RacedOn(a, b, u, n) ==
    /\ a.pc = "done" /\ b.pc = "done"
    /\ a.overlapped /\ b.overlapped
    /\ a.user = u /\ b.user = u
    /\ a.status \notin {400, 404} /\ b.status \notin {400, 404}
    /\ Reconciles(a, n) /\ Reconciles(b, n)
    /\ Matching(a.pre, u, n) = {} /\ Matching(b.pre, u, n) = {}

AssociatedWithNamed(req, u, n) ==
    \E t \in Matching(tags, u, n) : <<req.id, t.id>> \in recipe_tags

C21_RacingRequestsBothComplete ==
    \A u \in Users, n \in Names :
        LET a == requests["w1"]
            b == requests["w2"]
        IN RacedOn(a, b, u, n) =>
               /\ a.status \in {200, 201}
               /\ b.status \in {200, 201}
               /\ Matching(tags, u, n) # {}
               /\ AssociatedWithNamed(a, u, n)
               /\ AssociatedWithNamed(b, u, n)
====
